---- MODULE Spec2Model ----
(***************************************************************************)
(* Model of the image pipeline of WB_L3_4: one artifact identifier, its    *)
(* row in the images table, its files on disk, the queue message sent at   *)
(* upload, the queue consumers running ProcessImage and the goroutines     *)
(* started by the on-demand stage endpoints.  Operations on different      *)
(* identifiers share no state in the code (every statement is keyed by the *)
(* id), so the model follows a single identifier.                          *)
(*                                                                         *)
(* Every step is one access to the images table together with the local    *)
(* computation and the file operations around it (a handler's save of its  *)
(* output is taken with the update that follows it; only deletion removes  *)
(* files).  Operations that can fail in the code (opening                  *)
(* a store connection, a statement on the table, decoding, saving a file,  *)
(* loading the overlay asset, sending to the queue) have their outcome     *)
(* drawn nondeterministically.                                             *)
(*                                                                         *)
(* Spec has the upload, the read, trigger and delete endpoints and         *)
(* ProcessImage invocations that may overlap (several consumers of the     *)
(* group).  SpecStore exercises the Storage type on tables of any schema   *)
(* age.  SpecMain is one process as cmd/main.go builds it: the single      *)
(* consumer goroutine, its cancellation at shutdown, and the browser page  *)
(* polling the record; FairMain adds the fairness of the goroutine and of  *)
(* the polling interval.                                                   *)
(***************************************************************************)
EXTENDS Integers, FiniteSets, Sequences, TLC

\* ------------------------------------------------------------------ bounds
\* Times the queue hands the upload's message to a consumer (at-least-once);
\* each delivery is one invocation of ProcessImage by a consumer loop.
MaxDeliveries == 2
\* On-demand trigger requests (POST /image/{id}/<stage>) the server handles.
MaxTriggers == 2
\* ProcessImage invocations and client requests (triggers, reads, deletions)
\* together.
MaxStarted == 2
\* Read requests (GET /image/{id}...) and DELETE requests the server handles.
MaxReads == 1
MaxDeletes == 1

\* ------------------------------------------------------------------ values
Stages == {"resize", "thumbnail", "watermark"}

\* No row in the table / no record in hand (records, so that they compare with rows).
NoRow == [Status |-> "norow"]
NoImg == [Status |-> "noimg"]
NoStage == "nostage"

OriginalFile == "original/id.jpg"

\* Output path of a stage: {processed-dir}/{id}_resized.jpg and so on.
OutputPath(s) ==
  CASE s = "resize" -> "processed/id_resized.jpg"
    [] s = "thumbnail" -> "processed/id_thumb.jpg"
    [] s = "watermark" -> "processed/id_watermarked.jpg"

\* The field of models.Image holding a stage's status / output path.
StatusField(s) ==
  CASE s = "resize" -> "ResizeStatus"
    [] s = "thumbnail" -> "ThumbnailStatus"
    [] s = "watermark" -> "WatermarkStatus"

PathField(s) ==
  CASE s = "resize" -> "ProcessedPath"
    [] s = "thumbnail" -> "ThumbnailPath"
    [] s = "watermark" -> "WatermarkedPath"

\* A record built without the three stage statuses (Go zero values).
NewImageWithoutStageStatuses ==
  [Status |-> "pending", OriginalPath |-> OriginalFile,
   ProcessedPath |-> "", ThumbnailPath |-> "", WatermarkedPath |-> "",
   ResizeStatus |-> "", ThumbnailStatus |-> "", WatermarkStatus |-> ""]

\* models.Image as handleUpload builds it.
NewImage ==
  [Status |-> "pending", OriginalPath |-> OriginalFile,
   ProcessedPath |-> "", ThumbnailPath |-> "", WatermarkedPath |-> "",
   ResizeStatus |-> "pending", ThumbnailStatus |-> "pending",
   WatermarkStatus |-> "pending"]

\* The k-th ProcessImage invocation made by a consumer loop, and the k-th
\* trigger request with the goroutine it may start.
Invocations == {<<"process", k>> : k \in 1..MaxDeliveries}
Requests == {<<"trigger", k>> : k \in 1..MaxTriggers}
Reads == {<<"read", k>> : k \in 1..MaxReads}
Deletes == {<<"delete", k>> : k \in 1..MaxDeletes}
\* The HTTP requests that get an answer.
Clients == Requests \cup Reads \cup Deletes
Threads == Invocations \cup Clients


VARIABLES
  images,      \* the row of the images table for the identifier, or NoRow
  files,       \* the files on disk that belong to the identifier
  uploaded,    \* the identifier has been generated by an upload
  queue,       \* messages carrying the identifier written to the topic
  pc,          \* position of each invocation / request and its goroutine
  img,         \* the *models.Image each of them works on
  cur,         \* the stage whose handler it is in or calls next (for a read:
               \* the endpoint it asked)
  errs,        \* processingErrors of a ProcessImage invocation
  ret,         \* what ProcessImage returned to the consumer loop
  resp,        \* the HTTP response to each trigger, read and delete request
  upResp,      \* the HTTP response to the latest upload request
  watermarkAsset, \* the overlay watermark.png can be opened (the program never writes it)
  columns,     \* the stage-status columns the images table has
  probe,       \* the last call a client of the Storage type made, with its record
  consumer,    \* the consumer goroutine of main: its context, where its loop
               \* is, how many messages ReadMessage has returned to it
  poll         \* the browser's polling interval for the identifier

vars == <<images, files, uploaded, queue, pc, img, cur, errs, ret, resp, upResp,
          watermarkAsset, columns, probe, consumer, poll>>

\* Invocations and requests are numbered in the order in which they start:
\* t may start once the one before it has.
InOrder(t) == IF t[2] = 1 THEN TRUE ELSE pc[<<t[1], t[2] - 1>>] # "idle"

\* The invocations and requests that have started.
Started == {t \in Threads : pc[t] # "idle"}

\* Threads that are inside ProcessImage, a handler or a trigger's goroutine.
InFlight(t) == pc[t] \notin {"idle", "p_ret", "answered", "ended"}

NoResp == [code |-> 0, body |-> "none", path |-> ""]
NoUpload == [code |-> 0, body |-> "none"]

\* The columns ensureSchemaCompatibility looks for; main has opened a Storage
\* before the server and the consumer start, so the table has them.
StatusColumns == {"resize_status", "thumbnail_status", "watermark_status"}
ColumnOf(s) ==
  CASE s = "resize" -> "resize_status"
    [] s = "thumbnail" -> "thumbnail_status"
    [] s = "watermark" -> "watermark_status"

NoProbe == [op |-> "none", rec |-> NoImg, err |-> FALSE]

\* The consumer goroutine as main starts it: context live, loop at ReadMessage.
NewConsumer == [ctx |-> "live", loop |-> "read", received |-> 0]

Init ==
  /\ images = NoRow
  /\ files = {}
  /\ uploaded = FALSE
  /\ queue = 0
  /\ pc = [t \in Threads |-> "idle"]
  /\ img = [t \in Threads |-> NoImg]
  /\ cur = [t \in Threads |-> NoStage]
  /\ errs = [t \in Invocations |-> {}]
  /\ ret = [t \in Invocations |-> "none"]
  /\ resp = [t \in Clients |-> NoResp]
  /\ upResp = NoUpload
  /\ watermarkAsset \in BOOLEAN
  /\ columns = StatusColumns
  /\ probe = NoProbe
  /\ consumer = NewConsumer
  /\ poll = "none"

\* ------------------------------------------------------------ the store
\* Outcomes of the two statements of SaveImage / UpdateImage: the nine-column
\* statement succeeds ("ok"); it fails and the six-column one succeeds
\* ("fallback"); both fail ("fail").
StoreOutcomes == {"ok", "fallback", "fail"}

\* Storage.SaveImage: the row the table holds afterwards.  The six-column
\* INSERT leaves the three status columns to their DEFAULT 'pending'.
SaveImage(i, o) ==
  CASE o = "ok" -> i
    [] o = "fallback" ->
         [i EXCEPT !.ResizeStatus = "pending", !.ThumbnailStatus = "pending",
                   !.WatermarkStatus = "pending"]
    [] o = "fail" -> NoRow

\* An update that inserts the record when the row is not there.
UpdateImageUpsert(row, i, o) == IF o = "fail" THEN row ELSE i

\* An update that also blanks original_path.
UpdateImageClearingOriginal(row, i, o) ==
  IF row = NoRow \/ o = "fail" THEN row
  ELSE [row EXCEPT !.Status = i.Status, !.OriginalPath = ""]

\* Storage.UpdateImage: the row the table holds afterwards.  UPDATE ... WHERE
\* id = $1 on a missing row changes nothing and is no error; original_path is
\* in neither statement.
UpdateImage(row, i, o) ==
  IF row = NoRow \/ o = "fail" THEN row
  ELSE IF o = "ok" THEN
    [row EXCEPT !.Status = i.Status, !.ProcessedPath = i.ProcessedPath,
                !.ThumbnailPath = i.ThumbnailPath,
                !.WatermarkedPath = i.WatermarkedPath,
                !.ResizeStatus = i.ResizeStatus,
                !.ThumbnailStatus = i.ThumbnailStatus,
                !.WatermarkStatus = i.WatermarkStatus]
  ELSE
    [row EXCEPT !.Status = i.Status, !.ProcessedPath = i.ProcessedPath,
                !.ThumbnailPath = i.ThumbnailPath,
                !.WatermarkedPath = i.WatermarkedPath]

\* A caller that takes every SaveImage / UpdateImage to have succeeded.
StoreErrNever(o) == FALSE

\* The error UpdateImage / SaveImage returns: set only when both statements failed.
StoreErr(o) == o = "fail"

\* Storage.GetImage: the row, or an error when there is none (Scan on no rows)
\* or the query fails.
GetImageFails(row, queryOk) == row = NoRow \/ ~queryOk

\* imaging.Open(img.OriginalPath): fails when the file is gone; may fail on a
\* file that is there (read or decode error).
OpenOutcomes(path) == IF path \in files THEN BOOLEAN ELSE {FALSE}

\* A watermark stage that goes on without the overlay.
TransformOutcomesSkipOverlay(s, asset) == BOOLEAN

\* Whether the middle of a handler (MkdirAll, loading the overlay, transform,
\* imaging.Save) can succeed / fail: the watermark stage fails when the
\* overlay cannot be opened; directory creation and saving may fail anywhere.
TransformOutcomes(s, asset) ==
  IF s = "watermark" /\ ~asset THEN {FALSE} ELSE BOOLEAN

\* ------------------------------------------------------------ ProcessImage
\* Aggregate with the all-failed threshold off by one.
AggregateOffByOne(k) ==
  IF k >= 2 THEN "error" ELSE IF k > 0 THEN "partial" ELSE "done"

\* The final status ProcessImage derives from len(processingErrors).
Aggregate(k) ==
  IF k = 3 THEN "error" ELSE IF k > 0 THEN "partial" ELSE "done"

\* A precondition that lets a record in error through again.
AlreadyProcessedButError(row) == row.Status \notin {"pending", "error"}

\* The precondition of ProcessImage fails: the record is not pending.
AlreadyProcessed(row) == row.Status # "pending"

\* A done-guard that also turns away a stage in error.
StageDoneOrError(row, s) == row[StatusField(s)] \in {"done", "error"}

\* Trigger guards that never fire.
StageInProgressNever(row, s) == FALSE
StageDoneNever(row, s) == FALSE

\* The guards of the on-demand trigger endpoints.
StageInProgress(row, s) == row[StatusField(s)] = "processing"
StageDone(row, s) == row[StatusField(s)] = "done"

\* A decode failure that marks the aggregate only.
OpenFailedAggregateOnly(i) == [i EXCEPT !.Status = "error"]

\* The record after imaging.Open failed in ProcessImage.
OpenFailed(i) ==
  [i EXCEPT !.Status = "error", !.ResizeStatus = "error",
            !.ThumbnailStatus = "error", !.WatermarkStatus = "error"]

\* A run that reports success whatever its handlers returned.
ProcessImageResultAlwaysNil(updateFailed, e) ==
  IF updateFailed THEN "store error" ELSE "nil"

\* What ProcessImage returns after the final update: the update's error, the
\* "processing completed with errors" error when a handler failed, or nil.
ProcessImageResult(updateFailed, e) ==
  IF updateFailed THEN "store error"
  ELSE IF e # {} THEN "completed with errors"
  ELSE "nil"

\* An orchestrator that calls the watermark handler before the thumbnail one.
NextStageSwapped(s) ==
  CASE s = "resize" -> "watermark"
    [] s = "watermark" -> "thumbnail"
    [] s = "thumbnail" -> NoStage

\* The order in which ProcessImage calls the three handlers.
FirstStage == "resize"
NextStage(s) ==
  CASE s = "resize" -> "thumbnail"
    [] s = "thumbnail" -> "watermark"
    [] s = "watermark" -> NoStage

\* What a thread does when the handler it is in returns (failed: it returned
\* an error) with i as the record in hand.  ProcessImage appends the error to
\* processingErrors and calls the next handler, or goes on to the final status
\* after the third; the goroutine of an on-demand trigger logs it and ends.
HandlerReturns(t, i, failed) ==
  LET s == cur[t] IN
  IF t \in Invocations THEN
    /\ errs' = [errs EXCEPT ![t] = IF failed THEN @ \cup {s} ELSE @]
    /\ img' = [img EXCEPT ![t] = i]
    /\ cur' = [cur EXCEPT ![t] = NextStage(s)]
    /\ pc' = [pc EXCEPT ![t] = IF NextStage(s) = NoStage THEN "p_final" ELSE "h_begin"]
  ELSE
    /\ errs' = errs
    /\ img' = [img EXCEPT ![t] = NoImg]
    /\ cur' = [cur EXCEPT ![t] = NoStage]
    /\ pc' = [pc EXCEPT ![t] = "ended"]

\* ProcessImage returns r to the consumer loop, which logs an error and goes
\* on to the next message.
ProcessImageReturns(c, r) ==
  /\ pc' = [pc EXCEPT ![c] = "p_ret"]
  /\ ret' = [ret EXCEPT ![c] = r]
  /\ img' = [img EXCEPT ![c] = NoImg]
  /\ cur' = [cur EXCEPT ![c] = NoStage]
  /\ errs' = [errs EXCEPT ![c] = {}]

\* -------------------------------------------------------- stage executors
\* ResizeHandler / ThumbnailHandler / WatermarkHandler, first part, entered
\* by t for stage s: set the stage status to processing, open a store
\* connection, persist.  A failed connection returns the error at once; a
\* failed update is only logged.
HandlerEnter(t, s) ==
  LET i == [img[t] EXCEPT ![StatusField(s)] = "processing"] IN
    \/ \* storage.NewStorage fails
       /\ cur[t] = s
       /\ HandlerReturns(t, i, TRUE)
       /\ UNCHANGED images
    \/ \E o \in StoreOutcomes :
         /\ images' = UpdateImage(images, i, o)
         /\ img' = [img EXCEPT ![t] = i]
         /\ cur' = [cur EXCEPT ![t] = s]
         /\ pc' = [pc EXCEPT ![t] = "h_run"]
         /\ UNCHANGED errs

\* ProcessImage calling ThumbnailHandler / WatermarkHandler.
HandlerBegin(c) ==
  /\ pc[c] = "h_begin"
  /\ HandlerEnter(c, cur[c])
  /\ UNCHANGED <<files, uploaded, upResp, watermarkAsset, columns, probe, consumer, poll, queue, ret, resp>>

\* Second part: create the directory, (load the overlay,) transform and save;
\* then set the output path and status done and persist, returning the
\* update's error if it has one.  When the directory, the overlay or the save
\* fails the stage status becomes error, is persisted (the result of that
\* update is ignored) and the handler returns the error.
HandlerRun(t) ==
  /\ pc[t] = "h_run"
  /\ \/ LET i == [img[t] EXCEPT ![StatusField(cur[t])] = "error"] IN
        \E o \in StoreOutcomes :
          /\ FALSE \in TransformOutcomes(cur[t], watermarkAsset)
          /\ images' = UpdateImage(images, i, o)
          /\ HandlerReturns(t, i, TRUE)
          /\ UNCHANGED files
     \/ LET i == [img[t] EXCEPT ![PathField(cur[t])] = OutputPath(cur[t]),
                                ![StatusField(cur[t])] = "done"] IN
        \E o \in StoreOutcomes :
          /\ TRUE \in TransformOutcomes(cur[t], watermarkAsset)
          /\ files' = files \cup {OutputPath(cur[t])}
          /\ images' = UpdateImage(images, i, o)
          /\ HandlerReturns(t, i, StoreErr(o))
  /\ UNCHANGED <<uploaded, upResp, watermarkAsset, columns, probe, consumer, poll, queue, ret, resp>>

\* ------------------------------------------------------------ ProcessImage
\* The consumer loop of cmd/main.go: ReadMessage returns the message and the
\* loop calls ProcessImage.
ReadMessage(c) ==
  /\ pc[c] = "idle"
  /\ queue > 0
  /\ InOrder(c)
  /\ Cardinality(Started) < MaxStarted
  /\ pc' = [pc EXCEPT ![c] = "p_get"]
  /\ UNCHANGED <<images, files, uploaded, upResp, watermarkAsset, columns, probe, consumer, poll, queue, img, cur, errs, ret, resp>>

\* ProcessImage up to the precondition: open a store connection, read the
\* record, return nil unless its status is pending.
ProcessImageGet(c) ==
  /\ pc[c] = "p_get"
  /\ \/ \* storage.NewStorage fails
        /\ ProcessImageReturns(c, "store error")
     \/ /\ \E queryOk \in BOOLEAN : GetImageFails(images, queryOk)
        /\ ProcessImageReturns(c, "store error")
     \/ /\ images # NoRow
        /\ AlreadyProcessed(images)
        /\ ProcessImageReturns(c, "nil")
     \/ /\ images # NoRow
        /\ ~AlreadyProcessed(images)
        /\ img' = [img EXCEPT ![c] = [images EXCEPT !.Status = "processing"]]
        /\ pc' = [pc EXCEPT ![c] = "p_mark"]
        /\ UNCHANGED <<ret, cur, errs>>
  /\ UNCHANGED <<images, files, uploaded, upResp, watermarkAsset, columns, probe, consumer, poll, queue, resp>>

\* Persist the status processing; an error of the update ends the run.
\* ResizeHandler is the handler called first after the decode.
ProcessImageMark(c) ==
  /\ pc[c] = "p_mark"
  /\ \E o \in StoreOutcomes :
       /\ images' = UpdateImage(images, img[c], o)
       /\ IF StoreErr(o)
            THEN ProcessImageReturns(c, "store error")
            ELSE /\ pc' = [pc EXCEPT ![c] = "p_open"]
                 /\ cur' = [cur EXCEPT ![c] = FirstStage]
                 /\ UNCHANGED <<ret, img, errs>>
  /\ UNCHANGED <<files, uploaded, upResp, watermarkAsset, columns, probe, consumer, poll, queue, resp>>

\* Decode the source once.  On failure the aggregate and the three stage
\* statuses become error, are persisted (result ignored) and the run ends;
\* otherwise ProcessImage calls ResizeHandler.
ProcessImageOpen(c) ==
  /\ pc[c] = "p_open"
  /\ \/ /\ TRUE \in OpenOutcomes(img[c].OriginalPath)
        /\ HandlerEnter(c, FirstStage)
        /\ UNCHANGED ret
     \/ /\ FALSE \in OpenOutcomes(img[c].OriginalPath)
        /\ LET i == OpenFailed(img[c]) IN
           \E o \in StoreOutcomes :
             /\ images' = UpdateImage(images, i, o)
             /\ ProcessImageReturns(c, "open error")
  /\ UNCHANGED <<files, uploaded, upResp, watermarkAsset, columns, probe, consumer, poll, queue, resp>>

\* After the three handlers: derive the final status from the number of
\* errors, persist it, return.
ProcessImageFinal(c) ==
  /\ pc[c] = "p_final"
  /\ LET i == [img[c] EXCEPT !.Status = Aggregate(Cardinality(errs[c]))] IN
     \E o \in StoreOutcomes :
       /\ images' = UpdateImage(images, i, o)
       /\ ProcessImageReturns(c, ProcessImageResult(StoreErr(o), errs[c]))
  /\ UNCHANGED <<files, uploaded, upResp, watermarkAsset, columns, probe, consumer, poll, queue, resp>>

\* ------------------------------------------------------ on-demand triggers
\* handleResizeImage / handleThumbnailImage / handleWatermarkImage: read the
\* record, answer 404 without it, 202 when the stage is processing, 200 with
\* the path when it is done; otherwise start a goroutine on the record read
\* and answer 202.
HandleStageImage(r, s) ==
  /\ uploaded
  /\ pc[r] = "idle"
  /\ InOrder(r)
  /\ Cardinality(Started) < MaxStarted
  /\ cur' = [cur EXCEPT ![r] = s]
  /\ \/ /\ \E queryOk \in BOOLEAN : GetImageFails(images, queryOk)
        /\ resp' = [resp EXCEPT ![r] = [code |-> 404, body |-> "Image not found", path |-> ""]]
        /\ pc' = [pc EXCEPT ![r] = "answered"]
        /\ UNCHANGED img
     \/ /\ images # NoRow
        /\ StageInProgress(images, s)
        /\ resp' = [resp EXCEPT ![r] = [code |-> 202, body |-> "already in progress", path |-> ""]]
        /\ pc' = [pc EXCEPT ![r] = "answered"]
        /\ UNCHANGED img
     \/ /\ images # NoRow
        /\ ~StageInProgress(images, s)
        /\ StageDone(images, s)
        /\ resp' = [resp EXCEPT ![r] = [code |-> 200, body |-> "already completed",
                                        path |-> images[PathField(s)]]]
        /\ pc' = [pc EXCEPT ![r] = "answered"]
        /\ UNCHANGED img
     \/ /\ images # NoRow
        /\ ~StageInProgress(images, s)
        /\ ~StageDone(images, s)
        /\ pc' = [pc EXCEPT ![r] = "w_open"]
        /\ img' = [img EXCEPT ![r] = images]
        /\ resp' = [resp EXCEPT ![r] = [code |-> 202, body |-> "started", path |-> ""]]
  /\ UNCHANGED <<images, files, uploaded, upResp, watermarkAsset, columns, probe, consumer, poll, queue, errs, ret>>

\* The goroutine of a trigger: imaging.Open of the original; on failure it
\* logs and ends, otherwise it calls the stage's handler.
WorkerOpen(w) ==
  /\ pc[w] = "w_open"
  /\ \/ /\ TRUE \in OpenOutcomes(img[w].OriginalPath)
        /\ HandlerEnter(w, cur[w])
     \/ /\ FALSE \in OpenOutcomes(img[w].OriginalPath)
        /\ pc' = [pc EXCEPT ![w] = "ended"]
        /\ img' = [img EXCEPT ![w] = NoImg]
        /\ cur' = [cur EXCEPT ![w] = NoStage]
        /\ UNCHANGED <<images, errs>>
  /\ UNCHANGED <<files, uploaded, upResp, watermarkAsset, columns, probe, consumer, poll, queue, ret, resp>>

\* ---------------------------------------------------------- read endpoints
\* A client request t is taken up by its handler.
ClientStarts(t) ==
  /\ uploaded
  /\ pc[t] = "idle"
  /\ InOrder(t)
  /\ Cardinality(Started) < MaxStarted

\* A read request is taken up like any client request, and also whenever
\* nothing is in flight.
ReadStarts(t) ==
  /\ uploaded
  /\ pc[t] = "idle"
  /\ InOrder(t)
  /\ IF Cardinality(Started) < MaxStarted THEN TRUE
     ELSE \A u \in Threads : ~InFlight(u)

\* A check that takes every file to be there.
fileExistsAlways(path) == TRUE

\* Server.fileExists: os.Stat(path) has no error.
fileExists(path) == path \in files

\* The condition of handleGetThumbnail for serving the thumbnail.
ThumbnailReady(row) ==
  ~(\/ row.Status # "done"
    \/ row.ThumbnailPath = ""
    \/ ~fileExists(row.ThumbnailPath))

\* The same condition keyed on the aggregate status.
WatermarkedReadyByAggregate(row) ==
  ~(\/ row.Status # "done"
    \/ row.WatermarkedPath = ""
    \/ ~fileExists(row.WatermarkedPath))

\* The condition of handleGetWatermarkedImage for serving the watermarked file.
WatermarkedReady(row) ==
  ~(\/ row.WatermarkStatus # "done"
    \/ row.WatermarkedPath = ""
    \/ ~fileExists(row.WatermarkedPath))

Answer(c, b, p) == [code |-> c, body |-> b, path |-> p]

\* What every handler answers when GetImage returns an error.
ImageNotFound == Answer(404, "Image not found", "")

\* The handler of t answers a and returns.
Answers(t, endpoint, a) ==
  /\ resp' = [resp EXCEPT ![t] = a]
  /\ cur' = [cur EXCEPT ![t] = endpoint]
  /\ pc' = [pc EXCEPT ![t] = "answered"]
  /\ UNCHANGED <<uploaded, upResp, watermarkAsset, columns, probe, consumer, poll, queue, img, errs, ret>>

\* GET /image/{id}: 202 with the status unless it is done, else the resize
\* output, 404 when its path is empty or its file is missing.
HandleGetImage(t) ==
  /\ ReadStarts(t)
  /\ \E queryOk \in BOOLEAN :
       Answers(t, "image",
         IF GetImageFails(images, queryOk) THEN ImageNotFound
         ELSE IF images.Status # "done" THEN Answer(202, images.Status, "")
         ELSE IF images.ProcessedPath = "" \/ ~fileExists(images.ProcessedPath)
           THEN Answer(404, "Processed image not found", "")
         ELSE Answer(200, "file", images.ProcessedPath))
  /\ UNCHANGED <<images, files>>

\* GET /image/{id}/info: the record.
HandleGetImageInfo(t) ==
  /\ ReadStarts(t)
  /\ \E queryOk \in BOOLEAN :
       Answers(t, "info",
         IF GetImageFails(images, queryOk) THEN ImageNotFound
         ELSE [code |-> 200, body |-> "info", path |-> "", info |-> images])
  /\ UNCHANGED <<images, files>>

\* GET /image/{id}/original.
HandleGetOriginalImage(t) ==
  /\ ReadStarts(t)
  /\ \E queryOk \in BOOLEAN :
       Answers(t, "original",
         IF GetImageFails(images, queryOk) THEN ImageNotFound
         ELSE IF ~fileExists(images.OriginalPath)
           THEN Answer(404, "Original image file not found", "")
         ELSE Answer(200, "file", images.OriginalPath))
  /\ UNCHANGED <<images, files>>

\* GET /image/{id}/thumbnail: the thumbnail when the aggregate status is done
\* and the thumbnail file is there, else the original, else 404.
HandleGetThumbnail(t) ==
  /\ ReadStarts(t)
  /\ \E queryOk \in BOOLEAN :
       Answers(t, "thumbnail",
         IF GetImageFails(images, queryOk) THEN ImageNotFound
         ELSE IF ~ThumbnailReady(images)
           THEN IF fileExists(images.OriginalPath)
                  THEN Answer(200, "file", images.OriginalPath)
                  ELSE Answer(404, "Image not available", "")
         ELSE Answer(200, "file", images.ThumbnailPath))
  /\ UNCHANGED <<images, files>>

\* GET /image/{id}/watermarked: the watermarked file when watermark_status is
\* done and the file is there, else the original, else 404.
HandleGetWatermarkedImage(t) ==
  /\ ReadStarts(t)
  /\ \E queryOk \in BOOLEAN :
       Answers(t, "watermarked",
         IF GetImageFails(images, queryOk) THEN ImageNotFound
         ELSE IF ~WatermarkedReady(images)
           THEN IF fileExists(images.OriginalPath)
                  THEN Answer(200, "file", images.OriginalPath)
                  ELSE Answer(404, "Image not available", "")
         ELSE Answer(200, "file", images.WatermarkedPath))
  /\ UNCHANGED <<images, files>>

\* ------------------------------------------------------------------ delete
\* The four paths of a record that os.Remove is called on.
RecordPaths(row) ==
  {row.OriginalPath, row.ProcessedPath, row.ThumbnailPath, row.WatermarkedPath}

\* The text of the error GetImage returned, which handleDeleteImage puts in
\* the body of its 404: no row for the identifier, or a failed query.
GetImageError(row) ==
  IF row = NoRow THEN "no rows in result set" ELSE "query failed"

\* A delete statement that reports success and leaves the row.
DeleteImageKeepsRow(row, ok) == row

\* Storage.DeleteImage: the row afterwards.
DeleteImage(row, ok) == IF ok THEN NoRow ELSE row

\* DELETE /image/{id}: read the record (404 with the error's text on error),
\* remove its files (the
\* results are not inspected: any of the removals may fail), delete the row
\* (500 on error), answer 204.  The handler takes one step.
HandleDeleteImage(t) ==
  /\ ClientStarts(t)
  /\ \E queryOk \in BOOLEAN :
       IF GetImageFails(images, queryOk)
         THEN /\ Answers(t, "delete", Answer(404, GetImageError(images), ""))
              /\ UNCHANGED <<images, files>>
         ELSE /\ \E removed \in SUBSET (RecordPaths(images) \cap files) :
                   files' = files \ removed
              /\ \E ok \in BOOLEAN :
                   /\ images' = DeleteImage(images, ok)
                   /\ Answers(t, "delete",
                        IF ok THEN Answer(204, "", "")
                        ELSE Answer(500, "delete failed", ""))

\* ------------------------------------------------------------------ upload
\* What a client may post: no form file, bytes that do not sniff as JPEG,
\* PNG or GIF, more than 10 MiB, bytes that sniff as an image and do not
\* decode, a valid image.
UploadInputs == {"none", "badtype", "toolarge", "corrupt", "valid"}

\* The checks of handleUpload made before anything is written: the message of
\* the 400 answer, or "" when the file passes.
ValidationError(file) ==
  CASE file = "none" -> "No image file provided"
    [] file = "badtype" -> "Invalid image format"
    [] file = "toolarge" -> "File too large"
    [] OTHER -> ""

\* validateImageFile on the copy written to disk.
DecodesAsImage(file) == file = "valid"

\* A clean-up that leaves the file where it is.
RemoveNothing(fs, path) == fs

\* os.Remove(path).
Remove(fs, path) == fs \ {path}

UploadAnswer(c, b) == [code |-> c, body |-> b]

\* handleUpload: validate, write the original, check that it decodes (remove
\* it and answer 400 otherwise), save the record (on failure remove the file
\* and answer 500), send the message (a failure is only logged), answer 200.
\* The identifier is generated once the first three checks have passed.
HandleUpload ==
  /\ ~uploaded
  /\ \E file \in UploadInputs :
       \/ /\ ValidationError(file) # ""
          /\ upResp' = UploadAnswer(400, ValidationError(file))
          /\ UNCHANGED <<uploaded, images, files, queue>>
       \/ \* MkdirAll, os.Create or file.Open fails
          /\ ValidationError(file) = ""
          /\ uploaded' = TRUE
          /\ upResp' = UploadAnswer(500, "Failed to create file")
          /\ UNCHANGED <<images, files, queue>>
       \/ \* io.Copy fails: the file created stays
          /\ ValidationError(file) = ""
          /\ uploaded' = TRUE
          /\ files' = files \cup {OriginalFile}
          /\ upResp' = UploadAnswer(500, "Failed to save file")
          /\ UNCHANGED <<images, queue>>
       \/ /\ ValidationError(file) = ""
          /\ ~DecodesAsImage(file)
          /\ uploaded' = TRUE
          /\ files' = Remove(files \cup {OriginalFile}, OriginalFile)
          /\ upResp' = UploadAnswer(400, "Invalid or corrupted image file")
          /\ UNCHANGED <<images, queue>>
       \/ /\ ValidationError(file) = ""
          /\ DecodesAsImage(file)
          /\ uploaded' = TRUE
          /\ \E o \in StoreOutcomes :
               /\ images' = SaveImage(NewImage, o)
               /\ IF StoreErr(o)
                    THEN /\ files' = Remove(files \cup {OriginalFile}, OriginalFile)
                         /\ queue' = queue
                         /\ upResp' = UploadAnswer(500, "Failed to save image metadata")
                    ELSE /\ files' = files \cup {OriginalFile}
                         /\ \E sent \in BOOLEAN : queue' = IF sent THEN queue + 1 ELSE queue
                         /\ upResp' = UploadAnswer(200, "Image uploaded successfully")
  /\ UNCHANGED <<watermarkAsset, columns, probe, consumer, poll, pc, img, cur, errs, ret, resp>>

Next ==
  \/ HandleUpload
  \/ \E r \in Requests, s \in Stages : HandleStageImage(r, s)
  \/ \E w \in Requests : WorkerOpen(w)
  \/ \E c \in Invocations :
       \/ ReadMessage(c)
       \/ ProcessImageGet(c)
       \/ ProcessImageMark(c)
       \/ ProcessImageOpen(c)
       \/ HandlerBegin(c)
       \/ ProcessImageFinal(c)
  \/ \E t \in Invocations \cup Requests : HandlerRun(t)
  \/ \E t \in Reads :
       \/ HandleGetImage(t)
       \/ HandleGetImageInfo(t)
       \/ HandleGetOriginalImage(t)
       \/ HandleGetThumbnail(t)
       \/ HandleGetWatermarkedImage(t)
  \/ \E t \in Deletes : HandleDeleteImage(t)

Spec == Init /\ [][Next]_vars

\* ===================================================== the Storage type
\* The Storage type on its own: a table that may come from an older version
\* (stage-status columns missing, or present with no value in a row), a
\* client that opens it (ensureSchemaCompatibility) and calls SaveImage,
\* GetImage and DeleteImage with records of its choice.  In Spec the row never
\* lacks a stage status (every statement writes strings and the columns
\* default to pending), so there the handlers take the row as the record read.
NoValue == "null"

\* Records a client saves.
SavedRecords ==
  [Status : {"pending", "partial"}, OriginalPath : {OriginalFile},
   ProcessedPath : {"", OutputPath("resize")}, ThumbnailPath : {""},
   WatermarkedPath : {""}, ResizeStatus : {"pending", "done"},
   ThumbnailStatus : {"pending", "error"}, WatermarkStatus : {"pending"}]

\* Rows an older table may hold under the columns cols: a missing column has
\* no value, a column that is there may hold none either.
OlderRows(cols) ==
  {r \in [Status : {"pending", "done"}, OriginalPath : {OriginalFile},
          ProcessedPath : {"", OutputPath("resize")}, ThumbnailPath : {""},
          WatermarkedPath : {""}, ResizeStatus : {NoValue, "pending", "done"},
          ThumbnailStatus : {NoValue, "pending"},
          WatermarkStatus : {NoValue, "pending"}] :
     \A s \in Stages : ColumnOf(s) \notin cols => r[StatusField(s)] = NoValue}

\* A read that passes a missing value on.
CoalesceNothing(v) == v

\* COALESCE(resize_status, 'pending') and so on in the SELECT of GetImage.
Coalesce(v) == IF v = NoValue THEN "pending" ELSE v

\* The record Storage.GetImage scans from a row.
GetImageRecord(row) ==
  [row EXCEPT !.ResizeStatus = Coalesce(@), !.ThumbnailStatus = Coalesce(@),
              !.WatermarkStatus = Coalesce(@)]

\* ensureSchemaCompatibility on the columns: unless all three are there, add
\* each one that is missing.
ensureSchemaCompatibility(cols) ==
  IF Cardinality(cols \cap StatusColumns) < 3 THEN cols \cup StatusColumns ELSE cols

\* ALTER TABLE ... ADD COLUMN ... DEFAULT 'pending' on a row: the columns
\* added (in after, not in before) hold pending.
AddColumns(row, before, after) ==
  IF row = NoRow THEN NoRow
  ELSE [f \in DOMAIN row |->
          IF \E s \in Stages : /\ f = StatusField(s)
                               /\ ColumnOf(s) \in after \ before
            THEN "pending" ELSE row[f]]

pipelineVars ==
  <<files, uploaded, queue, pc, img, cur, errs, ret, resp, upResp, watermarkAsset,
    consumer, poll>>

InitStore ==
  /\ columns \in SUBSET StatusColumns
  /\ images \in {NoRow} \cup OlderRows(columns)
  /\ probe = NoProbe
  /\ files = {}
  /\ uploaded = FALSE
  /\ queue = 0
  /\ pc = [t \in Threads |-> "idle"]
  /\ img = [t \in Threads |-> NoImg]
  /\ cur = [t \in Threads |-> NoStage]
  /\ errs = [t \in Invocations |-> {}]
  /\ ret = [t \in Invocations |-> "none"]
  /\ resp = [t \in Clients |-> NoResp]
  /\ upResp = NoUpload
  /\ watermarkAsset = TRUE
  /\ consumer = NewConsumer
  /\ poll = "none"

\* storage.NewStorage up to the schema check; when the check or the ALTER
\* fails nothing is changed and no Storage is returned.
EnsureSchema ==
  /\ \E ok \in BOOLEAN :
       /\ columns' = IF ok THEN ensureSchemaCompatibility(columns) ELSE columns
       /\ images' = IF ok THEN AddColumns(images, columns, ensureSchemaCompatibility(columns))
                    ELSE images
       /\ probe' = [op |-> "ensure", rec |-> NoImg, err |-> ~ok]
  /\ UNCHANGED pipelineVars

\* A Storage exists only after ensureSchemaCompatibility returned nil.
StorageOpen == columns = StatusColumns

StoreSaveImage ==
  /\ StorageOpen
  /\ images = NoRow
  /\ \E r \in SavedRecords : \E o \in StoreOutcomes :
       /\ images' = SaveImage(r, o)
       /\ probe' = [op |-> "save", rec |-> r, err |-> StoreErr(o)]
  /\ UNCHANGED <<columns, pipelineVars>>

StoreGetImage ==
  /\ StorageOpen
  /\ \E queryOk \in BOOLEAN :
       probe' = IF GetImageFails(images, queryOk)
                  THEN [op |-> "get", rec |-> NoImg, err |-> TRUE]
                  ELSE [op |-> "get", rec |-> GetImageRecord(images), err |-> FALSE]
  /\ UNCHANGED <<images, columns, pipelineVars>>

StoreDeleteImage ==
  /\ StorageOpen
  /\ \E ok \in BOOLEAN :
       /\ images' = DeleteImage(images, ok)
       /\ probe' = [op |-> "delete", rec |-> NoImg, err |-> ~ok]
  /\ UNCHANGED <<columns, pipelineVars>>

NextStore ==
  \/ EnsureSchema
  \/ StoreSaveImage
  \/ StoreGetImage
  \/ StoreDeleteImage

SpecStore == InitStore /\ [][NextStore]_vars

\* ============================================== one process: main's goroutines
\* cmd/main.go starts one consumer goroutine.  Its loop calls
\* consumer.ReadMessage(ctx), calls ProcessImage on the message returned and,
\* when ProcessImage has returned, logs its error and calls ReadMessage again.
\* The browser page of web/script.js polls /image/{id}/info for the
\* identifier it uploaded.

\* consumer.ReadMessage(ctx) can return a message: the context is live (with a
\* cancelled context the blocking receive returns the context's error).
ReadMessageDelivers(ctx) == ctx = "live"

\* A loop that treats context.Canceled like any other error of ReadMessage.
IsCanceledNever(ctx) == FALSE

\* err == context.Canceled for the error ReadMessage returned under ctx.
IsCanceled(ctx) == ctx = "cancelled"

\* A loop that calls ProcessImage again when it returned an error.
AfterProcessImageRetry(r) == IF r = "nil" THEN "p_ret" ELSE "p_get"

\* Where the invocation is once ProcessImage has returned r to the loop:
\* the error is logged and the invocation is over.
AfterProcessImage(r) == "p_ret"

\* The test of startPolling for clearing the interval.
PollStops(status) == status = "done" \/ status = "error"

\* The invocation the loop is in: ProcessImage on the message last received.
Current == <<"process", consumer.received>>

\* ReadMessage returns the upload's message and the loop calls ProcessImage.
ConsumerReadMessage(c) ==
  /\ consumer.loop = "read"
  /\ ReadMessageDelivers(consumer.ctx)
  /\ queue > 0
  /\ pc[c] = "idle"
  /\ c = <<"process", consumer.received + 1>>
  /\ pc' = [pc EXCEPT ![c] = "p_get"]
  /\ consumer' = [consumer EXCEPT !.loop = "process", !.received = @ + 1]
  /\ UNCHANGED <<images, files, uploaded, upResp, watermarkAsset, columns, probe,
                 poll, queue, img, cur, errs, ret, resp>>

\* ProcessImage has returned: the loop logs an error and goes back to
\* ReadMessage.
ConsumerNext(c) ==
  /\ consumer.loop = "process"
  /\ c = Current
  /\ pc[c] = "p_ret"
  /\ pc' = [pc EXCEPT ![c] = AfterProcessImage(ret[c])]
  /\ consumer' = [consumer EXCEPT !.loop = "read"]
  /\ UNCHANGED <<images, files, uploaded, upResp, watermarkAsset, columns, probe,
                 poll, queue, img, cur, errs, ret, resp>>

\* ReadMessage returns the error of a cancelled context and the goroutine
\* returns.  (Any other error is logged and the call repeated: the loop stays
\* where it is.)
ConsumerReturns ==
  /\ consumer.loop = "read"
  /\ IsCanceled(consumer.ctx)
  /\ consumer' = [consumer EXCEPT !.loop = "returned"]
  /\ UNCHANGED <<images, files, uploaded, upResp, watermarkAsset, columns, probe,
                 poll, queue, pc, img, cur, errs, ret, resp>>

\* main receives SIGINT or SIGTERM and calls cancel().
Shutdown ==
  /\ consumer.ctx = "live"
  /\ consumer' = [consumer EXCEPT !.ctx = "cancelled"]
  /\ UNCHANGED <<images, files, uploaded, upResp, watermarkAsset, columns, probe,
                 poll, queue, pc, img, cur, errs, ret, resp>>

\* The page got 200 for its upload: addImageToGrid calls startPolling, which
\* sets the interval.
StartPolling ==
  /\ upResp.code = 200
  /\ poll = "none"
  /\ poll' = "active"
  /\ UNCHANGED <<images, files, uploaded, upResp, watermarkAsset, columns, probe,
                 consumer, queue, pc, img, cur, errs, ret, resp>>

\* One tick of the interval: fetch /image/{id}/info; when the answer is ok
\* and its status passes the test, clear the interval.  A failed fetch or an
\* answer that is not ok leaves the interval running.
PollTick ==
  /\ poll = "active"
  /\ \E fetched \in BOOLEAN, queryOk \in BOOLEAN :
       poll' = IF /\ fetched
                  /\ ~GetImageFails(images, queryOk)
                  /\ PollStops(images.Status)
               THEN "cleared" ELSE poll
  /\ UNCHANGED <<images, files, uploaded, upResp, watermarkAsset, columns, probe,
                 consumer, queue, pc, img, cur, errs, ret, resp>>

\* The steps of the consumer goroutine.
ConsumerStep ==
  \/ ConsumerReturns
  \/ \E c \in Invocations :
       \/ ConsumerReadMessage(c)
       \/ ConsumerNext(c)
       \/ ProcessImageGet(c)
       \/ ProcessImageMark(c)
       \/ ProcessImageOpen(c)
       \/ HandlerBegin(c)
       \/ HandlerRun(c)
       \/ ProcessImageFinal(c)

NextMain ==
  \/ HandleUpload
  \/ Shutdown
  \/ StartPolling
  \/ PollTick
  \/ ConsumerStep

SpecMain == Init /\ [][NextMain]_vars

\* The goroutine is scheduled as long as it has a step to take, and the
\* interval keeps firing until it is cleared.
FairMain == SpecMain /\ WF_vars(ConsumerStep) /\ WF_vars(PollTick)

\* ================================================================== claims
\* The aggregate the specification asks for after k failed stages.
ExpectedAggregate(k) ==
  CASE k = 0 -> "done"
    [] k \in {1, 2} -> "partial"
    [] k = 3 -> "error"

\* C1: whenever ProcessImage persists its final status after the three
\* handlers returned, the stored aggregate is done for 0 failed stages,
\* partial for 1 or 2, error for 3.
C1_FinalAggregate ==
  [][\A c \in Invocations :
       (pc[c] = "p_final" /\ pc'[c] = "p_ret" /\ ret'[c] # "store error"
        /\ images # NoRow)
       => images'.Status = ExpectedAggregate(Cardinality(errs[c]))]_vars

\* A run that ended with some but not all stages failed left partial behind.
C1_Witness ==
  \E c \in Invocations :
    /\ pc[c] = "p_ret"
    /\ ret[c] = "completed with errors"
    /\ images.Status = "partial"

\* C2: a ProcessImage invocation that reads a record whose status is not
\* pending returns nil, changes neither the row nor the files and enters no
\* handler (a failed connection or read returns the store's error instead).
C2_NotPendingIsNoOp ==
  [][\A c \in Invocations :
       (pc[c] = "p_get" /\ pc'[c] # "p_get" /\ images # NoRow
        /\ images.Status # "pending")
       => /\ pc'[c] = "p_ret"
          /\ ret'[c] \in {"nil", "store error"}
          /\ images' = images
          /\ files' = files
          /\ cur'[c] = NoStage]_vars

\* An invocation returned nil while the record was already past pending and
\* another invocation holds it.
C2_Witness ==
  \E c, d \in Invocations :
    /\ c # d
    /\ pc[c] = "p_ret" /\ ret[c] = "nil"
    /\ pc[d] = "p_open"
    /\ images.Status = "processing"

\* C3: in every stored state a stage's path is non-empty exactly when the
\* stage's status is done.
C3_PathIffDone ==
  images # NoRow =>
    \A s \in Stages : (images[PathField(s)] # "") <=> (images[StatusField(s)] = "done")

\* C4: every change of a stored stage status is pending->processing,
\* processing->done, processing->error or error->processing.
C4_StageStatusSteps ==
  [][(images # NoRow /\ images' # NoRow) =>
       \A s \in Stages :
         \/ images'[StatusField(s)] = images[StatusField(s)]
         \/ <<images[StatusField(s)], images'[StatusField(s)]>> \in
              {<<"pending", "processing">>, <<"processing", "done">>,
               <<"processing", "error">>, <<"error", "processing">>}]_vars

\* C5: the stored aggregate only changes pending->processing and
\* processing->{done, partial, error}.
C5_AggregateSteps ==
  [][(images # NoRow /\ images' # NoRow) =>
       \/ images'.Status = images.Status
       \/ <<images.Status, images'.Status>> \in
            {<<"pending", "processing">>, <<"processing", "done">>,
             <<"processing", "partial">>, <<"processing", "error">>}]_vars

\* C6: when nothing is in flight and no stage is pending or processing, the
\* aggregate is done for three done stages, error for three error stages and
\* partial for a mix.
C6_AggregateMatchesStages ==
  (/\ images # NoRow
   /\ \A t \in Threads : ~InFlight(t)
   /\ \A s \in Stages : images[StatusField(s)] \in {"done", "error"})
  => images.Status =
       ExpectedAggregate(Cardinality({s \in Stages : images[StatusField(s)] = "error"}))

\* C7: never are two handler runs started by on-demand triggers in flight
\* for the same stage.
C7_OneRunPerStage ==
  \A r1, r2 \in Requests :
    (r1 # r2 /\ pc[r1] = "h_run" /\ pc[r2] = "h_run") => cur[r1] # cur[r2]

\* An invocation that got past the precondition status == pending.
PassedPrecondition(c) ==
  \/ pc[c] \in {"p_mark", "p_open", "h_begin", "h_run", "p_final"}
  \/ pc[c] = "p_ret" /\ ret[c] \in {"open error", "completed with errors"}

\* C8: of all deliveries of the identifier at most one invocation passes the
\* precondition.
C8_OnePassesPrecondition ==
  Cardinality({c \in Invocations : PassedPrecondition(c)}) <= 1

\* C9: a trigger that reads a record whose stage is processing answers 202
\* "already in progress", starts no goroutine and changes nothing stored.
C9_InProgressRejected ==
  [][\A r \in Requests :
       (pc[r] = "idle" /\ pc'[r] # "idle" /\ images # NoRow
        /\ images[StatusField(cur'[r])] = "processing"
        /\ resp'[r].code # 404)
       => /\ resp'[r] = [code |-> 202, body |-> "already in progress", path |-> ""]
          /\ pc'[r] = "answered"
          /\ img' = img
          /\ images' = images
          /\ files' = files]_vars

\* A trigger was answered "already in progress" while a run holds the stage.
C9_Witness ==
  \E r \in Requests :
    /\ pc[r] = "answered"
    /\ resp[r].code = 202 /\ resp[r].body = "already in progress"
    /\ images[StatusField(cur[r])] = "processing"

\* C10: a trigger that reads a record whose stage is done answers 200 with
\* the stored output path, starts no goroutine and changes nothing stored.
C10_DoneAnswered ==
  [][\A r \in Requests :
       (pc[r] = "idle" /\ pc'[r] # "idle" /\ images # NoRow
        /\ images[StatusField(cur'[r])] = "done"
        /\ resp'[r].code # 404)
       => /\ resp'[r] = [code |-> 200, body |-> "already completed",
                         path |-> images[PathField(cur'[r])]]
          /\ pc'[r] = "answered"
          /\ img' = img
          /\ images' = images
          /\ files' = files]_vars

\* A trigger was answered with the output path of a stage that is done.
C10_Witness ==
  \E r \in Requests :
    /\ pc[r] = "answered"
    /\ resp[r].code = 200
    /\ resp[r].path = OutputPath(cur[r])
    /\ images[StatusField(cur[r])] = "done"

\* C11: while the executors of two on-demand triggers run for different
\* stages, a step of one leaves the stored status and path of the other's
\* stage as they are, so that each stage's stored fields are those its own
\* executor wrote last.
C11_OtherStageUntouched ==
  [][\A r1, r2 \in Requests :
       (/\ r1 # r2
        /\ pc[r1] \in {"w_open", "h_run"} /\ pc'[r1] # pc[r1]
        /\ pc[r2] = "h_run"
        /\ cur[r1] # cur[r2]
        /\ images # NoRow)
       => /\ images'[StatusField(cur[r2])] = images[StatusField(cur[r2])]
          /\ images'[PathField(cur[r2])] = images[PathField(cur[r2])]]_vars

\* C12: the terminal write of a handler run never takes the stored status of
\* its stage from pending or error straight to done, or from pending straight
\* to error: the stored value it replaces is processing.
C12_ProcessingBeforeTerminal ==
  [][\A t \in Threads :
       (pc[t] = "h_run" /\ pc'[t] # "h_run" /\ images # NoRow)
       => <<images[StatusField(cur[t])], images'[StatusField(cur[t])]>> \notin
            {<<"pending", "done">>, <<"pending", "error">>, <<"error", "done">>}]_vars

C14_FailureStoredAsError ==
  [][(images # NoRow) =>
       /\ \A r \in Requests :
            (pc[r] = "w_open" /\ pc'[r] = "ended")
            => images'[StatusField(cur[r])] = "error"
       /\ \A c \in Invocations : \A s \in Stages :
            (s \in errs'[c] /\ s \notin errs[c])
            => images'[StatusField(s)] = "error"]_vars

\* C15: when a handler called by ProcessImage returns, then if it returned nil
\* the stage's stored status is done and its stored path is the output path,
\* and if it returned an error the stage's stored status is error.
C15_ExecutorReturn ==
  [][\A c \in Invocations :
       (/\ images # NoRow
        /\ pc[c] \in {"p_open", "h_begin", "h_run"}
        /\ pc'[c] \in {"h_begin", "p_final"}
        /\ cur'[c] # cur[c])
       => IF cur[c] \in errs'[c]
            THEN images'[StatusField(cur[c])] = "error"
            ELSE /\ images'[StatusField(cur[c])] = "done"
                 /\ images'[PathField(cur[c])] = OutputPath(cur[c])]_vars

C18_UploadCreatesPending ==
  [][(upResp'.code = 200 /\ upResp.code # 200) =>
       /\ images = NoRow
       /\ images' = [Status |-> "pending", OriginalPath |-> OriginalFile,
                     ProcessedPath |-> "", ThumbnailPath |-> "",
                     WatermarkedPath |-> "",
                     ResizeStatus |-> "pending", ThumbnailStatus |-> "pending",
                     WatermarkStatus |-> "pending"]
       /\ images'.OriginalPath \in files']_vars

\* The upload was answered 200 and nothing has touched the record yet.
C18_Witness ==
  /\ upResp.code = 200
  /\ images # NoRow
  /\ images.Status = "pending"
  /\ images.OriginalPath \in files
  /\ \A t \in Threads : pc[t] = "idle"

C20_OneMessagePerUpload ==
  upResp.code = 200 => queue = 1

\* C21: a DELETE that finds the record and whose delete statement goes
\* through answers 204 with the row gone, whichever of the record's files
\* were there or could be removed (it answers 404 or 500 and keeps the row
\* only when the store fails); after a 204 the row stays gone and every read
\* of the identifier answers 404 "Image not found".
C21_DeleteRemovesRecord ==
  [][/\ \A d \in Deletes :
          (pc[d] = "idle" /\ pc'[d] = "answered" /\ images # NoRow)
          => \/ resp'[d].code = 204 /\ images' = NoRow
             \/ resp'[d].code \in {404, 500} /\ images' = images
     /\ \A d \in Deletes : resp[d].code = 204 => images' = NoRow
     /\ \A d \in Deletes : \A t \in Reads :
          (resp[d].code = 204 /\ pc[t] = "idle" /\ pc'[t] = "answered")
          => resp'[t] = [code |-> 404, body |-> "Image not found", path |-> ""]]_vars

\* A record was deleted although one of its files could not be removed, and
\* the read that followed found nothing.
C21_Witness ==
  \E d \in Deletes : \E t \in Reads :
    /\ resp[d].code = 204
    /\ images = NoRow
    /\ OriginalFile \in files
    /\ resp[t].code = 404 /\ resp[t].body = "Image not found"

\* C22: GET /image/{id} on a record that is read answers 202 with the
\* aggregate status when that is not done, 200 with the resize output when it
\* is done and the processed file is there, and 404 when it is done and
\* processed_path is empty or the file is missing; without a row it answers
\* 404 "Image not found" (so it does when the read of the row fails).
C22_GetImage ==
  [][\A t \in Reads :
       (pc[t] = "idle" /\ pc'[t] = "answered" /\ cur'[t] = "image")
       => IF images = NoRow
            THEN resp'[t] = [code |-> 404, body |-> "Image not found", path |-> ""]
            ELSE \/ resp'[t] = [code |-> 404, body |-> "Image not found", path |-> ""]
                 \/ /\ images.Status # "done"
                    /\ resp'[t] = [code |-> 202, body |-> images.Status, path |-> ""]
                 \/ /\ images.Status = "done"
                    /\ images.ProcessedPath # ""
                    /\ images.ProcessedPath \in files
                    /\ resp'[t] = [code |-> 200, body |-> "file",
                                   path |-> images.ProcessedPath]
                 \/ /\ images.Status = "done"
                    /\ images.ProcessedPath = "" \/ images.ProcessedPath \notin files
                    /\ resp'[t].code = 404]_vars

\* The resize output was served for a record whose aggregate is done.
C22_Witness ==
  \E t \in Reads :
    /\ cur[t] = "image"
    /\ resp[t] = [code |-> 200, body |-> "file", path |-> OutputPath("resize")]
    /\ images # NoRow
    /\ images.Status = "done"

\* C23: GET /image/{id}/thumbnail on a record that is read serves the
\* thumbnail file whenever thumbnail_status is done and the file is there,
\* whatever the aggregate status, and serves the original only when the
\* thumbnail stage is not done.
C23_GetThumbnail ==
  [][\A t \in Reads :
       (/\ pc[t] = "idle" /\ pc'[t] = "answered" /\ cur'[t] = "thumbnail"
        /\ images # NoRow
        /\ resp'[t].body # "Image not found")
       => /\ (images.ThumbnailStatus = "done" /\ images.ThumbnailPath \in files)
               => resp'[t] = [code |-> 200, body |-> "file",
                              path |-> images.ThumbnailPath]
          /\ (resp'[t].code = 200 /\ resp'[t].path = images.OriginalPath)
               => images.ThumbnailStatus # "done"]_vars

\* C24: GET /image/{id}/watermarked on a record that is read serves the
\* watermarked file whenever watermark_status is done and the file is there,
\* whatever the aggregate status; otherwise it serves the original when that
\* file is there and answers 404 when it is not.
C24_GetWatermarked ==
  [][\A t \in Reads :
       (/\ pc[t] = "idle" /\ pc'[t] = "answered" /\ cur'[t] = "watermarked"
        /\ images # NoRow
        /\ resp'[t].body # "Image not found")
       => IF /\ images.WatermarkStatus = "done"
             /\ images.WatermarkedPath # ""
             /\ images.WatermarkedPath \in files
            THEN resp'[t] = [code |-> 200, body |-> "file",
                             path |-> images.WatermarkedPath]
            ELSE IF images.OriginalPath \in files
              THEN resp'[t] = [code |-> 200, body |-> "file",
                               path |-> images.OriginalPath]
              ELSE resp'[t] = [code |-> 404, body |-> "Image not available",
                               path |-> ""]]_vars

\* The watermarked file was served while the aggregate was not done.
C24_Witness ==
  \E t \in Reads :
    /\ cur[t] = "watermarked"
    /\ resp[t] = [code |-> 200, body |-> "file", path |-> OutputPath("watermark")]
    /\ images # NoRow
    /\ images.WatermarkStatus = "done"
    /\ images.Status # "done"

\* C25: a trigger that reads a record whose stage is pending or in error
\* (neither processing nor done), whatever the aggregate status, answers 202
\* "started" at once and starts a goroutine for that stage on the record
\* read; while that run is the only one under way and nothing else has
\* written the record since it was read, its writes leave the status and
\* path of the other stages as they are.
C25_RetryOneStage ==
  [][\A r \in Requests :
       /\ (/\ pc[r] = "idle" /\ pc'[r] # "idle" /\ images # NoRow
           /\ images[StatusField(cur'[r])] \in {"pending", "error"}
           /\ resp'[r].code # 404)
          => /\ resp'[r] = [code |-> 202, body |-> "started", path |-> ""]
             /\ pc'[r] = "w_open"
             /\ img'[r] = images
             /\ images' = images
       /\ (/\ pc[r] \in {"w_open", "h_run"} /\ pc'[r] # pc[r] /\ images # NoRow
           /\ \A u \in Threads \ {r} : ~InFlight(u)
           /\ \A s \in Stages \ {cur[r]} :
                /\ img[r][StatusField(s)] = images[StatusField(s)]
                /\ img[r][PathField(s)] = images[PathField(s)])
          => \A s \in Stages \ {cur[r]} :
               /\ images'[StatusField(s)] = images[StatusField(s)]
               /\ images'[PathField(s)] = images[PathField(s)]]_vars

\* After a run that ended partial, the failed stage was retried by a trigger
\* and is done, and the two stages that were done are done with their paths.
C25_Witness ==
  \E r \in Requests : \E c \in Invocations :
    /\ pc[c] = "p_ret" /\ ret[c] = "completed with errors"
    /\ pc[r] = "ended"
    /\ resp[r] = [code |-> 202, body |-> "started", path |-> ""]
    /\ images # NoRow
    /\ images.Status = "partial"
    /\ \A s \in Stages :
         images[StatusField(s)] = "done" /\ images[PathField(s)] = OutputPath(s)

\* C26: when an update made by ProcessImage reports success (the one that
\* marks the record processing, and the final one), the row holds the
\* aggregate status, the three paths and the three stage statuses of the
\* record that was passed.
C26_UpdateWritesAllFields ==
  [][\A c \in Invocations :
       /\ (pc[c] = "p_mark" /\ pc'[c] = "p_open" /\ images # NoRow)
          => /\ images'.Status = img[c].Status
             /\ \A s \in Stages :
                  /\ images'[PathField(s)] = img[c][PathField(s)]
                  /\ images'[StatusField(s)] = img[c][StatusField(s)]
       /\ (pc[c] = "p_final" /\ pc'[c] = "p_ret" /\ ret'[c] # "store error"
           /\ images # NoRow)
          => \A s \in Stages :
               /\ images'[PathField(s)] = img[c][PathField(s)]
               /\ images'[StatusField(s)] = img[c][StatusField(s)]]_vars

\* C28: as long as the row exists its original_path is the one written at
\* creation: no step changes or clears it.
C28_OriginalPathKept ==
  [][(images # NoRow /\ images' # NoRow) =>
       /\ images'.OriginalPath = images.OriginalPath
       /\ images'.OriginalPath = OriginalFile]_vars

\* A full run and a trigger's handler have written the row and original_path
\* is still the upload's.
C28_Witness ==
  \E c \in Invocations : \E r \in Requests :
    /\ pc[c] = "p_ret" /\ ret[c] \in {"nil", "completed with errors"}
    /\ pc[r] = "ended"
    /\ images # NoRow
    /\ images.Status \in {"done", "partial", "error"}
    /\ images.OriginalPath = OriginalFile

\* C27: a GetImage that follows a SaveImage that returned nil, with no other
\* call on the store in between, returns the record that was saved, equal in
\* every field.
C27_SaveGetRoundTrip ==
  [][(/\ probe.op = "save" /\ ~probe.err
      /\ probe'.op = "get" /\ ~probe'.err)
     => probe'.rec = probe.rec]_vars

\* C29: ensureSchemaCompatibility on a table that has the three stage-status
\* columns changes neither the columns nor the row; run again after a run
\* that returned nil it changes nothing; it only ever adds columns; and
\* GetImage returns pending for every stage status the row has no value for
\* and the stored value for the others.
C29_SchemaCompatibility ==
  [][/\ probe'.op = "ensure" =>
          /\ columns \subseteq columns'
          /\ StatusColumns \subseteq columns => (columns' = columns /\ images' = images)
          /\ (probe.op = "ensure" /\ ~probe.err) => (columns' = columns /\ images' = images)
          /\ ~probe'.err => columns' = StatusColumns
     /\ (probe'.op = "get" /\ ~probe'.err) =>
          \A s \in Stages :
            probe'.rec[StatusField(s)] =
              IF images[StatusField(s)] = NoValue THEN "pending"
              ELSE images[StatusField(s)]]_vars

\* The schema step returned nil on a table that had the three columns (its
\* row still has no value in any of them: an added column would hold pending).
C29_Witness ==
  /\ probe.op = "ensure" /\ ~probe.err
  /\ columns = StatusColumns
  /\ images # NoRow
  /\ \A s \in Stages : images[StatusField(s)] = NoValue

\* C30: on every read, trigger and delete endpoint, 404 for the record (on the
\* read and trigger endpoints: 404 "Image not found") is
\* answered only when the store holds no record for the identifier; a store
\* that could not be reached during get is answered differently (500).
\* Every handler answers 404 on any error of GetImage, so the property fails
\* whenever the query fails on a stored record.
C30_NotFoundOnlyWhenUnknown ==
  [][\A t \in Clients :
       (/\ pc[t] # "answered"
        /\ pc'[t] = "answered"
        /\ resp'[t].code = 404
        /\ t \notin Deletes => resp'[t].body = "Image not found")
         => images = NoRow]_vars

C32_OnceNoRetry ==
  [][/\ consumer'.received = Cardinality({c \in Invocations : pc'[c] # "idle"})
     /\ \A c \in Invocations :
          pc[c] = "p_ret" => (pc'[c] = "p_ret" /\ ret'[c] = ret[c])
     /\ (consumer.loop = "process" /\ consumer'.loop = "read") =>
          /\ images' = images
          /\ files' = files
          /\ consumer'.received = consumer.received]_vars

\* ProcessImage returned an error for the first message, the record is as
\* that run left it (not terminal), and the loop has received the next one.
C32_Witness ==
  /\ ret[<<"process", 1>>] \notin {"none", "nil"}
  /\ consumer.received = 2
  /\ images # NoRow
  /\ images.Status \in {"pending", "processing"}

\* C33: once a delivery of the record's message has been handed to
\* ProcessImage, the stored aggregate status eventually is done, partial or
\* error, unless the record is deleted.  Left aside here: a shutdown (the
\* consumer's context cancelled), and a record still pending, which a later
\* delivery of the message can process.
\* A run whose final write fails returns with the record processing, and no
\* later delivery changes that: the precondition lets only pending through.
C33_PipelineTerminates ==
  \A c \in Invocations :
    (pc[c] = "p_get") ~>
       \/ images = NoRow
       \/ images.Status \in {"done", "partial", "error"}
       \/ images.Status = "pending"
       \/ consumer.ctx = "cancelled"

\* C34: the store never holds a stage at processing while no handler run for
\* that stage is in flight (a state in which every on-demand trigger of the
\* stage is answered 'already in progress' and nothing will end it).
\* A run whose last write fails leaves processing behind, and so does the
\* whole-record write of another stage's run that read the record while this
\* stage was processing and finishes after it.
C34_NoOrphanProcessing ==
  \A s \in Stages :
    (images # NoRow /\ images[StatusField(s)] = "processing") =>
      \E t \in Invocations \cup Requests : InFlight(t) /\ cur[t] = s

\* C35: once the stored aggregate status is done, partial or error and the
\* page is polling, the polling loop eventually clears its interval.
\* startPolling clears the interval for done and error only: with the status
\* partial every tick leaves the interval running.
C35_PollingStops ==
  (/\ poll = "active"
   /\ images # NoRow
   /\ images.Status \in {"done", "partial", "error"}) ~> (poll = "cleared")

\* C36: handleUpload sends the queue message only for a record it has saved:
\* a step that adds a message ends with the record in the store and the
\* answer 200, and an upload answered 500 adds none.  Hence whenever
\* ProcessImage has been invoked the upload had succeeded, and the record can
\* be missing then only because a DELETE has removed it.
C36_SaveBeforeSend ==
  [][/\ queue' # queue =>
          (queue' = queue + 1 /\ images' # NoRow /\ upResp'.code = 200)
     /\ (upResp' # upResp /\ upResp'.code # 200) => queue' = queue
     /\ \A c \in Invocations :
          pc'[c] # "idle" =>
            /\ queue' > 0
            /\ upResp'.code = 200
            /\ images' = NoRow => \E d \in Deletes : resp'[d].code = 204]_vars

\* ProcessImage was invoked after a DELETE removed the record and returned
\* the error of not finding it.
C36_Witness ==
  /\ images = NoRow
  /\ resp[<<"delete", 1>>].code = 204
  /\ pc[<<"process", 1>>] = "p_ret"
  /\ ret[<<"process", 1>>] = "store error"

\* C37: once a DELETE has removed the record it stays removed: no write of a
\* ProcessImage run or of a handler run that was in flight brings the row
\* back, so GetImage fails for the identifier in every later state.
C37_DeletedStaysDeleted ==
  [][/\ (images = NoRow /\ upResp.code = 200) => images' = NoRow
     /\ \A d \in Deletes : resp'[d].code = 204 => images' = NoRow]_vars

\* The DELETE has answered 204 while a handler run that has stored its
\* processing status still has its last write to make.
C37_Witness ==
  /\ images = NoRow
  /\ resp[<<"delete", 1>>].code = 204
  /\ \E t \in Invocations \cup Requests :
       /\ pc[t] = "h_run"
       /\ img[t] # NoImg

\* C38: when a DELETE has answered 204 and no run is in flight any more, no
\* output file of a stage (resized, thumbnail, watermarked) is on disk.
\* handleDeleteImage removes the files named in the record it read; a run
\* that was in flight saves its output after that, and nothing removes it.
C38_DeleteRemovesFiles ==
  (/\ \E d \in Deletes : resp[d].code = 204
   /\ \A t \in Threads : ~InFlight(t))
    => files \cap {OutputPath(s) : s \in Stages} = {}

\* The stages ProcessImage has been through when it is at stage s.
StagesBefore(s) ==
  CASE s = "resize" -> {}
    [] s = "thumbnail" -> {"resize"}
    [] s = "watermark" -> {"resize", "thumbnail"}
    [] OTHER -> Stages

====
